---------------------------- MODULE Spec2Model ----------------------------
(***************************************************************************)
(* A model of the scrape-then-aggregate pipeline of the repository:        *)
(*   scraper.py  load_sentiment_model, scrape_reviews, scrape_products,    *)
(*               scrape_testimonials, main (writes data.json)              *)
(*   app.py      load_data (cached), the three dashboard pages             *)
(*                                                                         *)
(* Strings that the code takes apart (dates, review ids) are sequences of  *)
(* one-character strings / of "-"-separated parts; floats with a fixed     *)
(* number of decimals are integers in that unit (confidence: 1/10000).     *)
(***************************************************************************)
EXTENDS Integers, Sequences, FiniteSets, TLC

(***************************************************************************)
(* Bounds of the model (not program constants).                            *)
(***************************************************************************)
\* longest review source the GraphQL server holds (scrape_reviews alone):
\* the sources are the short ones and the one of this length
MaxReviews == 21
\* largest number of edges the server puts in one page
MaxPageCap == 2
\* transient failures of the pipeline constructor the environment produces
MaxLoadFailures == 1
\* longest review source in the whole-pipeline specification
MaxReviewsMain == 1
\* longest short review source of scrape_reviews alone
MaxReviewsScrape == 3
\* longest review source of scrape_reviews under fairness
MaxReviewsFair == 2
\* longest review source behind the scraped file the dashboard loads
MaxReviewsApp == 2
\* largest number of non-empty product pages the site serves
MaxSitePages == 2
\* largest number of batches the testimonials page loads by scrolling
MaxBatches == 17

(***************************************************************************)
(* Program constants.                                                      *)
(***************************************************************************)
max_pages == 20
batch_size == 50
TARGET_YEAR == 2023
NumProductPages == 6
max_scrolls == 15
FILTER_YEAR == 2023
NumMonths == 12

None == "None"
\* a failed parse: strptime's ValueError, pandas' NaT
NaT == [ok |-> FALSE, year |-> 0, month |-> 0, day |-> 0]

(***************************************************************************)
(* Small arithmetic and sequence helpers.                                  *)
(***************************************************************************)
Min(a, b) == IF a <= b THEN a ELSE b

(***************************************************************************)
(* datetime.strptime(date_str, "%Y-%m-%d") and strftime("%Y-%m-%d").       *)
(* The format compiles to the regular expression                           *)
(*   (\d\d\d\d)-(1[0-2]|0[1-9]|[1-9])-(3[01]|[12]\d|0[1-9]|[1-9]| [1-9])   *)
(* which must consume the whole string; then the calendar date must exist. *)
(***************************************************************************)
DigitChars == <<"0", "1", "2", "3", "4", "5", "6", "7", "8", "9">>
IsDigit(c) == \E i \in 1..10 : DigitChars[i] = c
DigitVal(c) == (CHOOSE i \in 1..10 : DigitChars[i] = c) - 1

\* str.split("-") on a sequence of characters that holds two "-": the
\* three fields (any other number of fields cannot match the format)
Dashes(s) == {i \in 1..Len(s) : s[i] = "-"}
SplitDash(s) ==
    LET p == CHOOSE i \in Dashes(s) : \A j \in Dashes(s) : i <= j
        q == CHOOSE i \in Dashes(s) : \A j \in Dashes(s) : i >= j
    IN  <<SubSeq(s, 1, p - 1), SubSeq(s, p + 1, q - 1), SubSeq(s, q + 1, Len(s))>>

MatchesY(f) == Len(f) = 4 /\ \A i \in 1..4 : IsDigit(f[i])
MatchesM(f) ==
    \/ Len(f) = 2 /\ f[1] = "1" /\ f[2] \in {"0", "1", "2"}
    \/ Len(f) = 2 /\ f[1] = "0" /\ IsDigit(f[2]) /\ f[2] # "0"
    \/ Len(f) = 1 /\ IsDigit(f[1]) /\ f[1] # "0"
MatchesD(f) ==
    \/ Len(f) = 2 /\ f[1] = "3" /\ f[2] \in {"0", "1"}
    \/ Len(f) = 2 /\ f[1] \in {"1", "2"} /\ IsDigit(f[2])
    \/ Len(f) = 2 /\ f[1] \in {"0", " "} /\ IsDigit(f[2]) /\ f[2] # "0"
    \/ Len(f) = 1 /\ IsDigit(f[1]) /\ f[1] # "0"

\* int() of a matched field of 1, 2 or 4 characters (the blank that %d
\* allows in front of a day counts as nothing)
DigitOrBlank(c) == IF c = " " THEN 0 ELSE DigitVal(c)
FieldVal(f) ==
    CASE Len(f) = 1 -> DigitVal(f[1])
      [] Len(f) = 2 -> 10 * DigitOrBlank(f[1]) + DigitVal(f[2])
      [] OTHER      -> 1000 * DigitVal(f[1]) + 100 * DigitVal(f[2])
                       + 10 * DigitVal(f[3]) + DigitVal(f[4])

IsLeap(y) == (y % 4 = 0) /\ ((y % 100 # 0) \/ (y % 400 = 0))
DaysInMonth(y, m) ==
    IF m = 2 THEN (IF IsLeap(y) THEN 29 ELSE 28)
    ELSE IF m \in {4, 6, 9, 11} THEN 30 ELSE 31

Strptime(s) ==
    IF Cardinality(Dashes(s)) # 2 THEN NaT
    ELSE LET f == SplitDash(s)
         IN  IF ~(MatchesY(f[1]) /\ MatchesM(f[2]) /\ MatchesD(f[3])) THEN NaT
             ELSE LET y == FieldVal(f[1])
                      m == FieldVal(f[2])
                      d == FieldVal(f[3])
                  IN  IF y < 1 \/ d > DaysInMonth(y, m) THEN NaT
                      ELSE [ok |-> TRUE, year |-> y, month |-> m, day |-> d]

\* the decimal digits of a number below 10000, no padding
Digit(n, unit) == DigitChars[((n \div unit) % 10) + 1]
Decimal(n) ==
    CASE n < 10   -> <<Digit(n, 1)>>
      [] n < 100  -> <<Digit(n, 10), Digit(n, 1)>>
      [] n < 1000 -> <<Digit(n, 100), Digit(n, 10), Digit(n, 1)>>
      [] OTHER    -> <<Digit(n, 1000), Digit(n, 100), Digit(n, 10), Digit(n, 1)>>
Pad2(n) == IF n < 10 THEN <<"0">> \o Decimal(n) ELSE Decimal(n)

Strftime(d) == Decimal(d.year) \o <<"-">> \o Pad2(d.month) \o <<"-">> \o Pad2(d.day)


(***************************************************************************)
(* The state.                                                              *)
(***************************************************************************)
VARIABLES
    \* the GraphQL server and the Python environment (inputs of scrape_reviews)
    source,             \* the reviews the server holds, in cursor order
    page_cap,           \* the most edges the server puts in one page
    server,             \* how the server fills pageInfo
    installed,          \* whether "from transformers import pipeline" works
    load_failures,      \* transient constructor failures produced so far
    \* scraper.py, module level
    sentiment_pipeline, \* None or the pipeline object (named by its number)
    constructed,        \* how often pipeline(...) returned an object
    \* main and scrape_reviews: position and locals
    pc,
    page_num, has_next_page, cursor, all_reviews,
    edges, page_info,   \* what is left of the response being processed
    requests,           \* the requests posted so far: page_num and 'after'
    exit,               \* how the pagination loop was left
    reviews, products, testimonials,
    failed,             \* the scrapers that returned [] from their except clause
    \* data.json
    file,
    writes,             \* how often main wrote data.json
    \* app.py: the cache of load_data and what the last script run did
    cache, page, month_idx, loaded, outcome, filtered_df, metrics,
    run_file            \* data.json as the last script run found it

envVars    == <<source, page_cap, server, installed, load_failures>>
modelVars  == <<sentiment_pipeline, constructed>>
scrapeVars == <<page_num, has_next_page, cursor, all_reviews, edges, page_info,
                requests, exit>>
mainVars   == <<reviews, products, testimonials, failed, writes>>
appVars    == <<cache, page, month_idx, loaded, outcome, filtered_df, metrics,
                run_file>>
vars == <<envVars, modelVars, pc, scrapeVars, mainVars, file, appVars>>

(***************************************************************************)
(* Sample review nodes.  Node i of a source is "<name>-i": ids are unique. *)
(***************************************************************************)
Chars(y, m, d) == y \o <<"-">> \o m \o <<"-">> \o d
Y2023 == <<"2", "0", "2", "3">>
Y2022 == <<"2", "0", "2", "2">>

NodePool == <<
    [name |-> <<"teal", "potion">>, text |-> "great product", rating |-> 5,
     date |-> Chars(Y2023, <<"0", "1">>, <<"1", "5">>)],
    [name |-> <<"box">>, text |-> "terrible", rating |-> 1,
     date |-> Chars(Y2023, <<"1">>, <<"5">>)],
    [name |-> <<"red", "shoes">>, text |-> "fine", rating |-> 3,
     date |-> Chars(Y2022, <<"1", "2">>, <<"3", "1">>)],
    [name |-> <<"teal", "potion">>, text |-> "", rating |-> 5,
     date |-> Chars(Y2023, <<"0", "2">>, <<"2", "8">>)],
    [name |-> <<"box">>, text |-> "great product", rating |-> 4,
     date |-> Chars(Y2023, <<"0", "2">>, <<"3", "0">>)],
    [name |-> <<"red", "shoes">>, text |-> "<binary>", rating |-> 1,
     date |-> Chars(Y2023, <<"0", "2">>, <<"0", "1">>)],
    [name |-> <<"box">>, text |-> "fine", rating |-> 2,
     date |-> <<"1", "5", "/", "0", "1", "/", "2", "0", "2", "3">>] >>

PoolSize == Len(NodePool)

\* the node at place i of the source that starts the pool at offset k
NodeAt(i, k) ==
    LET p == NodePool[((i - 1 + k) % PoolSize) + 1]
    IN  [rid |-> p.name \o <<ToString(i)>>, text |-> p.text,
         rating |-> p.rating, date |-> p.date]

SourceOf(n, k) == [i \in 1..n |-> NodeAt(i, k)]

ServerKinds == {"honest", "null_cursor", "always_next", "no_page_info"}

(***************************************************************************)
(* The GraphQL server: reviews(first, after) answers with the edges after  *)
(* the cursor and a pageInfo.  A cursor is the opaque string of the place  *)
(* of an edge in the source.                                               *)
(***************************************************************************)
CursorOf(i) == ToString(i)
OffsetOf(after) ==
    IF after = None THEN 0
    ELSE CHOOSE i \in 0..Len(source) : CursorOf(i) = after

ServerEdges(first, after) ==
    LET lo == OffsetOf(after) + 1
        hi == Min(OffsetOf(after) + Min(first, page_cap), Len(source))
    IN  [j \in 1..(IF hi < lo THEN 0 ELSE hi - lo + 1) |->
            [node |-> source[lo + j - 1], cursor |-> CursorOf(lo + j - 1)]]

ServerPageInfo(first, after) ==
    LET es   == ServerEdges(first, after)
        last == OffsetOf(after) + Len(es)
        endc == IF es = <<>> THEN None ELSE CursorOf(last)
        more == last < Len(source)
    IN  CASE server = "honest"       -> [endCursor |-> endc, hasNextPage |-> more]
          [] server = "null_cursor"  -> [hasNextPage |-> more]
          [] server = "always_next"  -> [endCursor |-> endc, hasNextPage |-> TRUE]
          [] server = "no_page_info" -> [none |-> TRUE]

\* dict.get(key, default) on a JSON object
Get(obj, key, default) == IF key \in DOMAIN obj THEN obj[key] ELSE default

(***************************************************************************)
(* load_sentiment_model and the classifier it returns.                     *)
(***************************************************************************)
\* load_sentiment_model without the `is None` test of line 17
LoadAlways(sp, ok) == IF ok THEN ToString(constructed + 1) ELSE None

\* the value of the global after a call whose constructor would (not) work
LoadSentimentModel(sp, ok) ==
    IF sp = None
    THEN IF ok THEN ToString(constructed + 1) ELSE None
    ELSE sp

\* model(text[:512], truncation=True)[0], the score rounded to 4 places
Classify(text) ==
    CASE text = "great product" -> [raises |-> FALSE, label |-> "POSITIVE", score |-> 9998]
      [] text = "terrible"      -> [raises |-> FALSE, label |-> "NEGATIVE", score |-> 9876]
      [] text = "fine"          -> [raises |-> FALSE, label |-> "POSITIVE", score |-> 6120]
      [] OTHER                  -> [raises |-> TRUE, label |-> "UNKNOWN", score |-> 0]

\* word.capitalize() on the words of the sample ids
Capitalize(w) ==
    CASE w = "teal"   -> "Teal"
      [] w = "potion" -> "Potion"
      [] w = "box"    -> "Box"
      [] w = "red"    -> "Red"
      [] w = "shoes"  -> "Shoes"
      [] OTHER        -> w

\* " ".join(word.capitalize() for word in rid.rsplit('-', 1)[0].split('-')) + " Review"
TitleOf(rid) ==
    LET stem == IF Len(rid) > 1 THEN SubSeq(rid, 1, Len(rid) - 1) ELSE rid
    IN  [i \in 1..Len(stem) |-> Capitalize(stem[i])] \o <<"Review">>

(***************************************************************************)
(* scrape_reviews.                                                         *)
(***************************************************************************)
\* lines 75-77: the variables of the request
Variables(cur) ==
    IF cur # None /\ cur # ""
    THEN [first |-> batch_size, after |-> cur]
    ELSE [first |-> batch_size]

\* lines 105-115 without the year test of line 111
KeepsDateAnyYear(node) == Strptime(node.date).ok

\* lines 105-115: whether the node's date parses and lies in the target year
KeepsDate(node) ==
    LET date_obj == Strptime(node.date)
    IN  date_obj.ok /\ date_obj.year = TARGET_YEAR

\* lines 120-131 without the test of the loaded model in line 124
SentimentIgnoringModel(model, text) ==
    IF text # "" /\ ~Classify(text).raises
    THEN [label |-> Classify(text).label, score |-> Classify(text).score]
    ELSE [label |-> "UNKNOWN", score |-> 0]

\* lines 120-131: the label and the score given the model the load returned
SentimentOf(model, text) ==
    IF model # None /\ text # "" /\ ~Classify(text).raises
    THEN [label |-> Classify(text).label, score |-> Classify(text).score]
    ELSE [label |-> "UNKNOWN", score |-> 0]

\* lines 133-142: the record appended for a node that was kept
ReviewRecord(node, model) ==
    [id         |-> node.rid,
     title      |-> TitleOf(node.rid),
     text       |-> node.text,
     rating     |-> node.rating,
     date       |-> Strftime(Strptime(node.date)),
     section    |-> "Reviews",
     sentiment  |-> SentimentOf(model, node.text).label,
     confidence |-> SentimentOf(model, node.text).score]

\* what the constructor may do at this call: it never works without the
\* package, and with it fails at most MaxLoadFailures times
LoadOutcomes ==
    {ok \in BOOLEAN : /\ ok => installed
                      /\ ~ok => (~installed \/ load_failures < MaxLoadFailures)}

\* line 66-70 (and 42): the locals on entry
EnterScrapeReviews ==
    /\ page_num' = 1
    /\ has_next_page' = TRUE
    /\ cursor' = None
    /\ all_reviews' = <<>>
    /\ edges' = <<>>
    /\ page_info' = [none |-> TRUE]
    /\ requests' = <<>>
    /\ exit' = "none"

\* an except clause that would return what was collected
ReturnCollected(collected) == collected

\* lines 155-157: the except clause returns []
ReturnOnException(collected) == <<>>

\* the while test with one more page allowed
WhileTestOffByOne(hnp, pn) == hnp /\ pn <= max_pages + 1

\* line 72: the test of the while loop
WhileTest(hnp, pn) == hnp /\ pn <= max_pages

\* lines 72-97: one pass of the while test, the request and its first checks
RequestPage ==
    /\ pc = "loop"
    /\ WhileTest(has_next_page, page_num)
    /\ \E answer \in {"ok", "raise", "errors"} :
         LET variables == Variables(cursor)
             after     == Get(variables, "after", None)
             es        == ServerEdges(variables.first, after)
         IN  /\ requests' = Append(requests, [page |-> page_num, variables |-> variables])
             /\ CASE answer = "raise" ->
                       \* requests.post, raise_for_status or response.json raised
                       /\ exit' = "exception"
                       /\ reviews' = ReturnOnException(all_reviews)
                       /\ failed' = failed \cup {"reviews"}
                       /\ pc' = "products"
                       /\ UNCHANGED <<edges, page_info>>
                  [] answer = "errors" ->
                       /\ exit' = "errors"
                       /\ pc' = "after_loop"
                       /\ UNCHANGED <<edges, page_info, reviews, failed>>
                  [] answer = "ok" /\ es = <<>> ->
                       /\ exit' = "no_edges"
                       /\ pc' = "after_loop"
                       /\ page_info' = ServerPageInfo(variables.first, after)
                       /\ UNCHANGED <<edges, reviews, failed>>
                  [] OTHER ->
                       /\ edges' = es
                       /\ page_info' = ServerPageInfo(variables.first, after)
                       /\ pc' = "edges"
                       /\ UNCHANGED <<exit, reviews, failed>>
    /\ UNCHANGED <<envVars, modelVars, page_num, has_next_page, cursor, all_reviews,
                   products, testimonials, writes, file, appVars>>

\* lines 99-142: the body of the for loop, for the next edge of the page
ProcessEdge ==
    /\ pc = "edges"
    /\ edges # <<>>
    /\ \E ok \in LoadOutcomes :
         LET node  == Head(edges).node
             keep  == KeepsDate(node)
             model == IF keep THEN LoadSentimentModel(sentiment_pipeline, ok)
                      ELSE sentiment_pipeline
             tried == keep /\ (model = None \/ model # sentiment_pipeline)
         IN  /\ sentiment_pipeline' = model
             /\ constructed' = IF tried /\ model # None
                               THEN constructed + 1 ELSE constructed
             /\ load_failures' = IF tried /\ ~ok /\ installed
                                 THEN load_failures + 1 ELSE load_failures
             /\ all_reviews' = IF keep
                               THEN Append(all_reviews, ReviewRecord(node, model))
                               ELSE all_reviews
    /\ edges' = Tail(edges)
    /\ UNCHANGED <<source, page_cap, server, installed, pc, page_num, has_next_page,
                   cursor, page_info, requests, exit, mainVars, file, appVars>>

\* lines 144-151: after the last edge of a page
EndPage ==
    /\ pc = "edges"
    /\ edges = <<>>
    /\ has_next_page' = Get(page_info, "hasNextPage", FALSE)
    /\ cursor' = Get(page_info, "endCursor", None)
    /\ page_num' = page_num + 1
    /\ pc' = "loop"
    /\ UNCHANGED <<envVars, modelVars, all_reviews, edges, page_info, requests, exit,
                   mainVars, file, appVars>>

\* line 72: the while test fails
LoopExit ==
    /\ pc = "loop"
    /\ ~WhileTest(has_next_page, page_num)
    /\ exit' = IF ~has_next_page THEN "no_next" ELSE "max_pages"
    /\ pc' = "after_loop"
    /\ UNCHANGED <<envVars, modelVars, page_num, has_next_page, cursor, all_reviews,
                   edges, page_info, requests, mainVars, file, appVars>>

\* a return that would hand back [] once the loop was left by a break
ReturnEmptyAfterBreak ==
    /\ pc = "after_loop"
    /\ reviews' = IF exit \in {"errors", "no_edges"} THEN <<>> ELSE all_reviews
    /\ pc' = "products"
    /\ UNCHANGED <<envVars, modelVars, scrapeVars, products, testimonials, failed,
                   writes, file, appVars>>

\* lines 153-159 (and main, line 470): return all_reviews
ReturnReviews ==
    /\ pc = "after_loop"
    /\ reviews' = all_reviews
    /\ pc' = "products"
    /\ UNCHANGED <<envVars, modelVars, scrapeVars, products, testimonials, failed,
                   writes, file, appVars>>

(***************************************************************************)
(* scrape_reviews alone, over every source and server of the bounds.       *)
(***************************************************************************)
NoFile == [kind |-> "missing"]
NoRun == [kind |-> "no_run"]

AppIdle ==
    /\ cache = NoRun /\ page = "none" /\ month_idx = 0 /\ loaded = NoRun
    /\ outcome = "none" /\ filtered_df = <<>> /\ metrics = NoRun
    /\ run_file = NoRun

IdleRest ==
    /\ reviews = <<>> /\ products = <<>> /\ testimonials = <<>>
    /\ failed = {}
    /\ writes = 0
    /\ file = NoFile
    /\ AppIdle

EntryLocals ==
    /\ page_num = 1 /\ has_next_page = TRUE /\ cursor = None
    /\ all_reviews = <<>> /\ edges = <<>> /\ page_info = [none |-> TRUE]
    /\ requests = <<>> /\ exit = "none"

InitScrape ==
    /\ \E n \in (0..MaxReviewsScrape) \cup {MaxReviews}, k \in 0..(PoolSize - 1) : source = SourceOf(n, k)
    /\ page_cap \in 1..MaxPageCap
    /\ server \in ServerKinds
    /\ installed \in BOOLEAN
    /\ load_failures = 0
    /\ sentiment_pipeline = None
    /\ constructed = 0
    /\ pc = "loop"
    /\ EntryLocals
    /\ IdleRest

NextScrape ==
    \/ RequestPage
    \/ ProcessEdge
    \/ EndPage
    \/ LoopExit
    \/ ReturnReviews

SpecScrape == InitScrape /\ [][NextScrape]_vars

(***************************************************************************)
(* scrape_products.  The site serves one product on each of its first      *)
(* site_pages pages and none on the later ones; product 2 has no .price    *)
(* element and the price text of product 1 already starts with "$".        *)
(***************************************************************************)
SiteProduct(p) ==
    [num |-> p, has_price |-> p # 2,
     price_text |-> IF p = 1 THEN <<"$", "9">> ELSE <<"4">>]

\* lines 213-253: the record Selenium builds from a product element
SeleniumProduct(e) ==
    [id      |-> <<"product", ToString(e.num)>>,
     price   |-> IF Head(e.price_text) = "$" THEN e.price_text
                 ELSE <<"$">> \o e.price_text,
     section |-> "Products"]

\* lines 292-323: the record BeautifulSoup builds from a product card
SoupProduct(e) ==
    [id      |-> <<"product", ToString(e.num)>>,
     price   |-> IF e.has_price THEN <<"$">> \o e.price_text ELSE <<"N", "/", "A">>,
     section |-> "Products"]

RECURSIVE SeleniumPages(_, _, _)
\* lines 195-257: pages from..upto; a page without products is skipped and a
\* product whose element lookup raises is skipped
SeleniumPages(site, from, upto) ==
    IF from > upto THEN <<>>
    ELSE (IF from <= site /\ SiteProduct(from).has_price
          THEN <<SeleniumProduct(SiteProduct(from))>> ELSE <<>>)
         \o SeleniumPages(site, from + 1, upto)

RECURSIVE SoupPages(_, _, _)
\* lines 273-329: pages from..upto; the first page without products, or with
\* a status other than 200 (page upto + 1), ends the loop
SoupPages(site, from, upto) ==
    IF from > upto \/ from > site THEN <<>>
    ELSE <<SoupProduct(SiteProduct(from))>> \o SoupPages(site, from + 1, upto)

\* lines 170-337.  sel_fail: the page whose driver.get raises (1 also stands
\* for a failed import or driver start), 0 for none.  soup_fail: the page at
\* which requests.get raises (how = "raise") or answers another status than
\* 200 (how = "status"), 0 for none.
\* whether the BeautifulSoup loop gets to the page that fails
SoupReaches(site, soup_fail) == soup_fail # 0 /\ soup_fail <= site + 1

\* lines 333-335: the except clause of the fallback is taken
ProductsRaised(site, sel_fail, soup_fail, how) ==
    sel_fail # 0 /\ SoupReaches(site, soup_fail) /\ how = "raise"

ScrapeProductsResult(site, sel_fail, soup_fail, how) ==
    IF sel_fail = 0 THEN SeleniumPages(site, 1, NumProductPages)
    ELSE LET all_products == SeleniumPages(site, 1, sel_fail - 1)
             reached == SoupReaches(site, soup_fail)
         IN  IF ProductsRaised(site, sel_fail, soup_fail, how) THEN <<>>
             ELSE all_products
                  \o SoupPages(site, 1, IF reached THEN soup_fail - 1 ELSE NumProductPages)

ScrapeProducts ==
    /\ pc = "products"
    /\ \E site \in 0..MaxSitePages,
          sel_fail \in 0..NumProductPages,
          soup_fail \in 0..NumProductPages,
          how \in {"raise", "status"} :
         /\ products' = ScrapeProductsResult(site, sel_fail, soup_fail, how)
         /\ failed' = IF ProductsRaised(site, sel_fail, soup_fail, how)
                      THEN failed \cup {"products"} ELSE failed
    /\ pc' = "testimonials"
    /\ UNCHANGED <<envVars, modelVars, scrapeVars, reviews, testimonials, writes,
                   file, appVars>>

(***************************************************************************)
(* scrape_testimonials.  The page shows one batch of testimonials and      *)
(* each scroll loads one more, until all of its batches are loaded.        *)
(***************************************************************************)
LongText == <<"G", "r", "e", "a", "t", "!">>
ShortText == <<"o", "k">>

\* the element of batch j: its text and the number of star images
TestimonialElement(j) ==
    [text  |-> CASE j % 3 = 1 -> LongText [] j % 3 = 2 -> ShortText [] OTHER -> <<>>,
     stars |-> IF j % 2 = 0 THEN 0 ELSE 4]

RECURSIVE ScrollLoop(_, _, _)
\* lines 383-396: the batches loaded when the scroll loop ends
ScrollLoop(batches, shown, scroll_count) ==
    IF scroll_count < max_scrolls /\ shown < batches
    THEN ScrollLoop(batches, shown + 1, scroll_count + 1)
    ELSE shown

RECURSIVE ExtractTestimonials(_, _, _)
\* lines 410-448: the testimonials of elements from..shown appended to acc
ExtractTestimonials(acc, from, shown) ==
    IF from > shown THEN acc
    ELSE LET e == TestimonialElement(from)
             rating == IF e.stars > 0 THEN e.stars ELSE 5
         IN  ExtractTestimonials(
                 IF e.text # <<>> /\ Len(e.text) > 5
                 THEN Append(acc, [id      |-> <<"testimonial", ToString(Len(acc) + 1)>>,
                                   text    |-> e.text,
                                   author  |-> "Anonymous",
                                   rating  |-> rating,
                                   section |-> "Testimonials"])
                 ELSE acc,
                 from + 1, shown)

\* lines 349-458
ScrapeTestimonialsResult(batches, ok) ==
    IF ~ok THEN <<>>
    ELSE ExtractTestimonials(<<>>, 1, ScrollLoop(batches, Min(batches, 1), 0))

ScrapeTestimonials ==
    /\ pc = "testimonials"
    /\ \E batches \in (0..3) \cup {MaxBatches}, ok \in BOOLEAN :
         /\ testimonials' = ScrapeTestimonialsResult(batches, ok)
         /\ failed' = IF ok THEN failed ELSE failed \cup {"testimonials"}
    /\ pc' = "save"
    /\ UNCHANGED <<envVars, modelVars, scrapeVars, reviews, products, writes,
                   file, appVars>>

(***************************************************************************)
(* main.                                                                   *)
(***************************************************************************)
\* line 470: main calls scrape_reviews
MainStart ==
    /\ pc = "start"
    /\ EnterScrapeReviews
    /\ pc' = "loop"
    /\ UNCHANGED <<envVars, modelVars, mainVars, file, appVars>>

\* all_data with two sections exchanged
AllDataSwapped(r, p, t) ==
    [kind |-> "json", reviews |-> r, products |-> t, testimonials |-> p]

\* lines 475-479
AllData(r, p, t) == [kind |-> "json", reviews |-> r, products |-> p, testimonials |-> t]

\* lines 486-487: the with block creates or replaces data.json with all_data
MainSave ==
    /\ pc = "save"
    /\ file' = AllData(reviews, products, testimonials)
    /\ writes' = writes + 1
    /\ pc' = "done"
    /\ UNCHANGED <<envVars, modelVars, scrapeVars, reviews, products, testimonials,
                   failed, appVars>>

\* a data.json left by an earlier run
OldFile == AllData(<<>>, <<SoupProduct(SiteProduct(1))>>, <<>>)

\* the whole of main, on the small sources
Init ==
    /\ \E n \in 0..MaxReviewsMain, k \in 0..(PoolSize - 1) : source = SourceOf(n, k)
    /\ page_cap = 1
    /\ server \in ServerKinds
    /\ installed \in BOOLEAN
    /\ load_failures = 0
    /\ sentiment_pipeline = None
    /\ constructed = 0
    /\ pc = "start"
    /\ EntryLocals
    /\ reviews = <<>> /\ products = <<>> /\ testimonials = <<>>
    /\ failed = {}
    /\ writes = 0
    /\ file \in {NoFile, OldFile}
    /\ AppIdle

Next ==
    \/ MainStart
    \/ RequestPage
    \/ ProcessEdge
    \/ EndPage
    \/ LoopExit
    \/ ReturnReviews
    \/ ScrapeProducts
    \/ ScrapeTestimonials
    \/ MainSave

Spec == Init /\ [][Next]_vars

(***************************************************************************)
(* app.py.  A data frame is the sequence of its rows; a row is a record    *)
(* and a key it lacks is a missing value of the column.                    *)
(***************************************************************************)
None3 == [kind |-> "None"]

Columns(df) == UNION {DOMAIN df[i] : i \in 1..Len(df)}

\* pd.to_datetime(..., errors='coerce') of one value: NaT when it does not parse
ToDatetime(s) == IF Strptime(s).ok THEN Strptime(s) ELSE NaT

\* lines 30-36: the reviews frame, its dates converted when the column exists
ReviewsFrame(rows) ==
    IF rows # <<>> /\ "date" \in Columns(rows)
    THEN [i \in 1..Len(rows) |->
            [c \in DOMAIN rows[i] \cup {"date"} |->
                IF c = "date" THEN ToDatetime(Get(rows[i], "date", <<>>))
                ELSE rows[i][c]]]
    ELSE rows

\* lines 20-41: the body of load_data
LoadDataBody(f) ==
    IF f.kind = "json"
    THEN [kind            |-> "frames",
          reviews_df      |-> ReviewsFrame(Get(f, "reviews", <<>>)),
          products_df     |-> Get(f, "products", <<>>),
          testimonials_df |-> Get(f, "testimonials", <<>>)]
    ELSE None3

\* line 17: st.cache_data keeps the first return value for the server's life
LoadData(cached, f) == IF cached = NoRun THEN LoadDataBody(f) ELSE cached

\* lines 170-171: Series == scalar is False on a missing date
MonthIs(d, m) == d.ok /\ d.month = m
YearIs(d, y) == d.ok /\ d.year = y

\* lines 169-172 without the year test of line 171
FilterMonthAnyYear(df, m) == SelectSeq(df, LAMBDA r : MonthIs(r.date, m))

\* lines 169-172
FilterMonth(df, m) ==
    SelectSeq(df, LAMBDA r : MonthIs(r.date, m) /\ YearIs(r.date, FILTER_YEAR))

\* line 174 without the emptiness test
ShowsAnalyticsAlways(fdf) == TRUE

\* line 174: the analytics are shown
ShowsAnalytics(fdf) == fdf # <<>>

\* a / b * 100 with one decimal, in tenths of a percent
Percent(a, b) ==
    IF b = 0 THEN [zero_division |-> TRUE, value |-> 0]
    ELSE [zero_division |-> FALSE, value |-> (2000 * a + b) \div (2 * b)]

\* lines 180-195 and 265-290
MetricsOf(fdf) ==
    LET total_reviews  == Len(fdf)
        five_star      == Len(SelectSeq(fdf, LAMBDA r : r.rating = 5))
        one_star       == Len(SelectSeq(fdf, LAMBDA r : r.rating = 1))
        has_sentiment  == {"sentiment", "confidence"} \subseteq Columns(fdf)
        positive_count == Len(SelectSeq(fdf, LAMBDA r : Get(r, "sentiment", "NaN") = "POSITIVE"))
        negative_count == Len(SelectSeq(fdf, LAMBDA r : Get(r, "sentiment", "NaN") = "NEGATIVE"))
        shares == <<Percent(five_star, total_reviews), Percent(one_star, total_reviews)>>
                  \o (IF has_sentiment
                      THEN <<Percent(positive_count, total_reviews),
                             Percent(negative_count, total_reviews)>>
                      ELSE <<>>)
    IN  [kind           |-> "metrics",
         total_reviews  |-> total_reviews,
         five_star      |-> five_star,
         one_star       |-> one_star,
         has_sentiment  |-> has_sentiment,
         positive_count |-> IF has_sentiment THEN positive_count ELSE 0,
         negative_count |-> IF has_sentiment THEN negative_count ELSE 0,
         shares         |-> [i \in 1..Len(shares) |-> shares[i].value],
         zero_division  |-> \E i \in 1..Len(shares) : shares[i].zero_division]

Pages == {"Reviews", "Products", "Testimonials"}

\* lines 152-349: the Reviews page, for the month the slider holds
ReviewsPage(ld, m) ==
    IF ld = None3 \/ ld.reviews_df = <<>>
    THEN [outcome |-> "error_stop", month_idx |-> 0, filtered_df |-> <<>>, metrics |-> NoRun]
    ELSE IF "date" \notin Columns(ld.reviews_df)
    THEN [outcome |-> "KeyError", month_idx |-> m, filtered_df |-> <<>>, metrics |-> NoRun]
    ELSE LET fdf == FilterMonth(ld.reviews_df, m)
         IN  IF ShowsAnalytics(fdf)
             THEN [outcome     |-> IF MetricsOf(fdf).zero_division
                                   THEN "ZeroDivisionError" ELSE "analytics",
                   month_idx   |-> m,
                   filtered_df |-> fdf,
                   metrics     |-> MetricsOf(fdf)]
             ELSE [outcome |-> "no_reviews_warning", month_idx |-> m,
                   filtered_df |-> fdf, metrics |-> NoRun]

\* lines 50-89 and 92-149: the Products and the Testimonials page
TablePage(ld, frame) ==
    [outcome     |-> IF ld # None3 /\ ld[frame] # <<>> THEN "shown" ELSE "warning",
     month_idx   |-> 0,
     filtered_df |-> <<>>,
     metrics     |-> NoRun]

\* one run of the script: load_data, then the page the sidebar selects
AppRun ==
    /\ \E p \in Pages, m \in 1..NumMonths :
         LET ld  == LoadData(cache, file)
             res == CASE p = "Reviews"      -> ReviewsPage(ld, m)
                      [] p = "Products"     -> TablePage(ld, "products_df")
                      [] p = "Testimonials" -> TablePage(ld, "testimonials_df")
         IN  /\ cache' = ld
             /\ loaded' = ld
             /\ page' = p
             /\ outcome' = res.outcome
             /\ month_idx' = res.month_idx
             /\ filtered_df' = res.filtered_df
             /\ metrics' = res.metrics
    /\ run_file' = file
    /\ UNCHANGED <<envVars, modelVars, pc, scrapeVars, mainVars, file>>

(***************************************************************************)
(* The dashboard over the files it may find, while main saves a new one.   *)
(***************************************************************************)
RECURSIVE HonestResult(_, _)
\* what scrape_reviews returns for a source served whole, with `model` loaded
HonestResult(src, model) ==
    IF src = <<>> THEN <<>>
    ELSE (IF KeepsDate(Head(src)) THEN <<ReviewRecord(Head(src), model)>> ELSE <<>>)
         \o HonestResult(Tail(src), model)

\* a row as another writer of data.json left it: the date as it came
RawRow(node, cols) ==
    LET full == [id |-> node.rid, text |-> node.text, rating |-> node.rating,
                 date |-> node.date, sentiment |-> SentimentOf("1", node.text).label,
                 confidence |-> SentimentOf("1", node.text).score]
    IN  [c \in cols |-> full[c]]

AllCols == {"id", "text", "rating", "date", "sentiment", "confidence"}
HandNodes == <<NodeAt(1, 0), NodeAt(3, 0), NodeAt(4, 0), NodeAt(5, 0), NodeAt(6, 0)>>
HandRows(cols) == [i \in 1..Len(HandNodes) |-> RawRow(HandNodes[i], cols)]

InitFiles ==
    { NoFile,
      [kind |-> "corrupt"],
      [kind |-> "not_object"],
      AllData(HandRows(AllCols), <<>>, <<>>),
      AllData(HandRows(AllCols \ {"sentiment", "confidence"}), <<>>, <<>>),
      AllData(HandRows(AllCols \ {"date"}), <<>>, <<>>),
      [kind |-> "json", products |-> <<SoupProduct(SiteProduct(1))>>] }

InitApp ==
    /\ source = <<>> /\ page_cap = 1 /\ server = "honest" /\ installed = TRUE
    /\ load_failures = 0
    /\ sentiment_pipeline = None
    /\ constructed = 0
    /\ pc = "save"
    /\ EntryLocals
    /\ \E n \in 0..MaxReviewsApp, k \in 0..(PoolSize - 1), model \in {None, "1"} :
         reviews = HonestResult(SourceOf(n, k), model)
    /\ products \in {<<>>, <<SeleniumProduct(SiteProduct(1))>>}
    /\ testimonials \in {<<>>, ScrapeTestimonialsResult(1, TRUE)}
    /\ failed = {}
    /\ writes = 0
    /\ file \in InitFiles
    /\ AppIdle

NextApp ==
    \/ AppRun
    \/ MainSave

SpecApp == InitApp /\ [][NextApp]_vars

\* scrape_reviews on the small sources, every enabled step eventually taken:
\* the function is one synchronous thread
InitFair ==
    /\ \E n \in 0..MaxReviewsFair : source = SourceOf(n, 0)
    /\ page_cap \in 1..MaxPageCap
    /\ server \in ServerKinds
    /\ installed \in BOOLEAN
    /\ load_failures = 0
    /\ sentiment_pipeline = None
    /\ constructed = 0
    /\ pc = "loop"
    /\ EntryLocals
    /\ IdleRest

FairScrape == InitFair /\ [][NextScrape]_vars /\ WF_vars(NextScrape)

(***************************************************************************)
(* The claims.                                                             *)
(***************************************************************************)
Returned == pc = "products"
Ids(rs) == [i \in 1..Len(rs) |-> rs[i].id]
Rids(nodes) == [i \in 1..Len(nodes) |-> nodes[i].rid]
DatedIn(node, y) == Strptime(node.date).ok /\ Strptime(node.date).year = y
ServedWhole == server = "honest" /\ exit \notin {"exception", "errors"}

\* C1: when the server serves the whole source as a finite sequence of cursor
\* pages, the list scrape_reviews returns holds every source review dated in
\* 2023, each exactly once (here: their ids, in source order).
C1_AllReviewsOf2023 ==
    (Returned /\ ServedWhole) =>
        Ids(reviews) = Rids(SelectSeq(source, LAMBDA node : DatedIn(node, 2023)))

IsRecordOf2023(r) ==
    /\ Len(r.date) = 10
    /\ SubSeq(r.date, 1, 4) = Y2023
    /\ Strptime(r.date).ok
    /\ \E i \in 1..Len(source) : source[i].rid = r.id /\ DatedIn(source[i], 2023)

\* C2: every record of the result (and of the list being collected) carries a
\* date of the form 2023-MM-DD that parses, and is the record of a source
\* review whose own date parses and lies in 2023; whatever the server does.
C2_Only2023 ==
    /\ \A i \in 1..Len(all_reviews) : IsRecordOf2023(all_reviews[i])
    /\ \A i \in 1..Len(reviews) : IsRecordOf2023(reviews[i])

C2_Witness ==
    /\ Returned /\ exit = "no_next" /\ reviews # <<>>
    /\ \E i \in 1..Len(source) : ~Strptime(source[i].date).ok
    /\ \E i \in 1..Len(source) : DatedIn(source[i], 2022)
    /\ \E i \in 1..Len(reviews) :
         \E j \in 1..Len(source) :
            source[j].rid = reviews[i].id /\ source[j].date # reviews[i].date

\* C9: no page is requested twice for the same pass of the loop (no retry),
\* and once a request has raised, it was the last request, the function has
\* returned and its result is the empty list, whatever had been collected.
C9_NoRetry ==
    /\ \A i, j \in 1..Len(requests) : i # j => requests[i].page # requests[j].page
    /\ exit = "exception" =>
          /\ Returned
          /\ reviews = <<>>
          /\ requests[Len(requests)].page = page_num

C9_Witness == exit = "exception" /\ Len(all_reviews) >= 2 /\ Len(requests) >= 3

\* C7: a step that processes an edge whose date is kept appends exactly the
\* record of that node and stays in the loop; when the model is not loaded
\* after the call, the text is empty or the classifier raises, the record
\* has sentiment UNKNOWN and confidence 0.
C7_SentimentOptional ==
    [][(pc = "edges" /\ edges # <<>> /\ DatedIn(Head(edges).node, 2023)) =>
          LET node == Head(edges).node
              last == all_reviews'[Len(all_reviews')]
          IN  /\ Len(all_reviews') = Len(all_reviews) + 1
              /\ SubSeq(all_reviews', 1, Len(all_reviews)) = all_reviews
              /\ last.id = node.rid /\ last.text = node.text
              /\ pc' = "edges" /\ exit' = "none"
              /\ (sentiment_pipeline' = None \/ node.text = "" \/ Classify(node.text).raises)
                    => (last.sentiment = "UNKNOWN" /\ last.confidence = 0)
       ]_vars

C7_Witness ==
    /\ Returned /\ exit = "no_next"
    /\ \E i \in 1..Len(reviews) : reviews[i].text = "" /\ reviews[i].sentiment = "UNKNOWN"
    /\ \E i \in 1..Len(reviews) : reviews[i].text = "<binary>" /\ reviews[i].sentiment = "UNKNOWN"
    /\ \E i \in 1..Len(reviews) : reviews[i].sentiment = "POSITIVE"
    /\ \E i \in 1..Len(reviews) :
          reviews[i].text = "great product" /\ reviews[i].sentiment = "UNKNOWN"

\* C8: once the global holds a pipeline, no step changes it or constructs
\* another one; a pipeline is constructed at most once in a process.
C8_PipelineCached ==
    [][/\ sentiment_pipeline # None =>
             (sentiment_pipeline' = sentiment_pipeline /\ constructed' = constructed)
       /\ constructed' <= 1
      ]_vars

C8_Witness ==
    /\ sentiment_pipeline # None /\ constructed = 1 /\ load_failures > 0
    /\ Cardinality({i \in 1..Len(all_reviews) : all_reviews[i].sentiment # "UNKNOWN"}) >= 3

StopReason ==
    /\ Len(requests) <= max_pages
    /\ pc \in {"after_loop", "products"} <=> exit # "none"
    /\ exit = "no_next" => ~has_next_page
    /\ exit = "max_pages" =>
          has_next_page /\ page_num = max_pages + 1 /\ Len(requests) = max_pages
    /\ exit = "no_edges" => edges = <<>> /\ Len(requests) = page_num
    /\ exit \in {"errors", "exception"} => Len(requests) = page_num

\* C10: the pagination loop ends: scrape_reviews returns in every run, after
\* at most max_pages requests, and the loop is left for one of: hasNextPage
\* false or absent, a page without edges, an "errors" response, an exception,
\* page max_pages completed.
C10_Terminates == (<>Returned) /\ []StopReason

C10_Witness == Returned /\ exit = "max_pages" /\ Len(requests) = 20

MainOrder ==
    /\ pc # "done" => ENABLED Next
    /\ pc \in {"start", "loop", "edges", "after_loop"} =>
          (reviews = <<>> /\ products = <<>> /\ testimonials = <<>> /\ failed = {})
    /\ pc = "products" => (products = <<>> /\ testimonials = <<>>)
    /\ pc = "testimonials" => testimonials = <<>>
    /\ writes = (IF pc = "done" THEN 1 ELSE 0)
    /\ pc = "done" =>
          /\ DOMAIN file = {"kind", "reviews", "products", "testimonials"}
          /\ file.kind = "json"
          /\ file.reviews = reviews
          /\ file.products = products
          /\ file.testimonials = testimonials
    /\ "reviews" \in failed => reviews = <<>>
    /\ "products" \in failed => products = <<>>
    /\ "testimonials" \in failed => testimonials = <<>>

\* C5: main runs the scrapers in the order reviews, products, testimonials;
\* data.json changes only once all three have returned and json.dump
\* completes exactly once; then the file holds exactly the three keys with
\* the lists returned.  A scraper that ended in its except clause contributed
\* the empty list, and no outcome of a scraper leaves main without a next
\* step before the save.
C5_MainSavesOnce ==
    /\ []MainOrder
    /\ [][/\ file' # file => (pc = "save" /\ pc' = "done")
          /\ reviews' # reviews => pc \in {"loop", "after_loop"}
          /\ products' # products => pc = "products"
          /\ testimonials' # testimonials => pc = "testimonials"
          /\ pc = "done" => pc' = "done"
         ]_vars

C5_Witness ==
    /\ pc = "done"
    /\ failed = {"reviews", "testimonials"}
    /\ all_reviews # <<>>
    /\ file.reviews = <<>> /\ file.products # <<>> /\ file.testimonials = <<>>

(***************************************************************************)
(* The claims about the dashboard.                                         *)
(***************************************************************************)
FilterRan == outcome \in {"analytics", "no_reviews_warning", "ZeroDivisionError"}
RowsOf(df) == {df[i] : i \in 1..Len(df)}
InMonth2023(row, m) == row.date.ok /\ row.date.month = m /\ row.date.year = 2023

\* C3: when the Reviews page evaluates the filter for month m, the filtered
\* rows are exactly the loaded rows whose date is a date of month m of 2023,
\* in the loaded order; a row whose date is missing is among them for no m.
C3_MonthFilter ==
    FilterRan =>
        LET df == loaded.reviews_df
            S  == {i \in 1..Len(df) : InMonth2023(df[i], month_idx)}
        IN  /\ month_idx \in 1..12
            /\ Len(filtered_df) = Cardinality(S)
            /\ RowsOf(filtered_df) = {df[i] : i \in S}
            /\ \A a, b \in 1..Len(filtered_df) :
                  a < b => \E i, j \in S : i < j /\ df[i] = filtered_df[a]
                                                 /\ df[j] = filtered_df[b]
            /\ \A a \in 1..Len(filtered_df) : filtered_df[a].date.ok

C3_Witness ==
    /\ outcome = "analytics" /\ month_idx = 2
    /\ Len(filtered_df) = 2
    /\ \E i \in 1..Len(loaded.reviews_df) : ~loaded.reviews_df[i].date.ok
    /\ \E i \in 1..Len(loaded.reviews_df) :
          loaded.reviews_df[i].date.ok /\ loaded.reviews_df[i].date.year = 2022

\* C4: the metrics exist only for a non-empty filtered set and count its
\* rows only: total_reviews is its size, the 5-star and 1-star counts and the
\* positive and negative counts are those of its rows and sum to at most the
\* total, and no share divides by zero.
C4_Metrics ==
    /\ outcome # "ZeroDivisionError"
    /\ metrics # NoRun =>
          /\ outcome = "analytics" /\ filtered_df # <<>>
          /\ ~metrics.zero_division
          /\ metrics.total_reviews = Len(filtered_df)
          /\ metrics.total_reviews <= Len(loaded.reviews_df)
          /\ metrics.five_star = Cardinality({i \in 1..Len(filtered_df) : filtered_df[i].rating = 5})
          /\ metrics.one_star = Cardinality({i \in 1..Len(filtered_df) : filtered_df[i].rating = 1})
          /\ metrics.five_star + metrics.one_star <= metrics.total_reviews
          /\ metrics.positive_count + metrics.negative_count <= metrics.total_reviews
          /\ metrics.has_sentiment =>
                /\ metrics.positive_count =
                      Cardinality({i \in 1..Len(filtered_df) : filtered_df[i].sentiment = "POSITIVE"})
                /\ metrics.negative_count =
                      Cardinality({i \in 1..Len(filtered_df) : filtered_df[i].sentiment = "NEGATIVE"})
    /\ (FilterRan /\ filtered_df = <<>>) => (metrics = NoRun /\ outcome = "no_reviews_warning")

C4_Witness ==
    /\ outcome = "analytics" /\ metrics.has_sentiment
    /\ metrics.total_reviews = 2 /\ metrics.total_reviews < Len(loaded.reviews_df)
    /\ metrics.five_star = 1 /\ metrics.one_star = 1
    /\ metrics.positive_count = 0 /\ metrics.negative_count = 0

\* C6: in every script run load_data returns (None, None, None) when
\* data.json is then missing or does not load, and three data frames
\* otherwise; with (None, None, None) Products and Testimonials end in their
\* warning and Reviews in its error, before the filter and the metrics.
C6_LoadData ==
    page # "none" =>
        /\ loaded = None3 <=> run_file.kind # "json"
        /\ loaded = None3 =>
              /\ page \in {"Products", "Testimonials"} => outcome = "warning"
              /\ page = "Reviews" =>
                    (outcome = "error_stop" /\ month_idx = 0 /\ metrics = NoRun)

(***************************************************************************)
(* The claims about the cursor loop, the breaks and scrape_products.       *)
(***************************************************************************)
\* the pageInfo of the response to request i (a request that was answered
\* with edges: every request but the last of a run is one)
PageInfoOf(i) ==
    ServerPageInfo(requests[i].variables.first,
                   Get(requests[i].variables, "after", None))

\* C11: the first request carries no 'after'; every later request carries as
\* 'after' the endCursor of the pageInfo of the response before it; no two
\* requests of a run ask for the same page (the same variables).
C11_CursorLoop ==
    /\ requests # <<>> => "after" \notin DOMAIN requests[1].variables
    /\ \A i \in 2..Len(requests) :
          /\ "endCursor" \in DOMAIN PageInfoOf(i - 1)
          /\ "after" \in DOMAIN requests[i].variables
          /\ requests[i].variables.after = PageInfoOf(i - 1).endCursor
    /\ \A i, j \in 1..Len(requests) :
          i # j => requests[i].variables # requests[j].variables

\* C12: the step in which a response holds "errors" or no edges leaves the
\* loop and adds nothing to the collected reviews; from then on the collected
\* list does not change, no further request is made, and the function
\* returns exactly that list, not through its except clause.
C12_BreakKeepsCollected ==
    [][/\ (exit = "none" /\ exit' \in {"errors", "no_edges"}) =>
             (all_reviews' = all_reviews /\ pc' = "after_loop")
       /\ exit \in {"errors", "no_edges"} =>
             /\ all_reviews' = all_reviews
             /\ requests' = requests
             /\ exit' = exit
             /\ pc = "after_loop" =>
                   (pc' = "products" /\ reviews' = all_reviews /\ failed' = failed)
      ]_vars

C12_Witness ==
    /\ Returned /\ exit = "errors"
    /\ Len(requests) >= 2
    /\ reviews # <<>> /\ reviews = all_reviews
    /\ "reviews" \notin failed

ProductsReturned == pc \in {"testimonials", "save", "done"}

\* C13: the list scrape_products returns is the output of exactly one of the
\* two methods (all pages by Selenium, or the pages the fallback read, or
\* the empty list of its except clause), and no product id occurs twice in
\* it, also when Selenium raised after collecting the products of some pages.
C13_OneMethod ==
    ProductsReturned =>
        /\ \A i, j \in 1..Len(products) :
              i # j => products[i].id # products[j].id
        /\ \E site \in 0..MaxSitePages, upto \in 0..NumProductPages :
              products \in {SeleniumPages(site, 1, NumProductPages),
                            SoupPages(site, 1, upto)}

=============================================================================
